---- MODULE Spec2Model ----
(***************************************************************************)
(* Lead filtration backend: the batch processor process_profiles           *)
(* (backend/main.py) and the profile validator validate_linkedin_profile   *)
(* with its helpers (backend/linkedin_utils.py).                           *)
(*                                                                         *)
(* Spec is one thread of control: direct calls of the validator, or one    *)
(* run of process_profiles with the validator's steps inside it.           *)
(* SpecBatch is process_profiles against a stub of the validator, run      *)
(* twice on the same input.  SpecServer is the HTTP layer: uploads,        *)
(* process requests and the background tasks they schedule, which share    *)
(* the browser session.                                                    *)
(*                                                                         *)
(* Python strings whose content the code inspects are sequences of         *)
(* one-character strings, so that startswith, strip, lower, split and the  *)
(* substring test are computed as the code computes them.  A table cell is *)
(* a record [kind, v]: kind "str" (a Python str with characters v), "num"  *)
(* (a non-string, non-missing value) or "nan" (a missing value).           *)
(***************************************************************************)
EXTENDS Integers, Sequences, FiniteSets, TLC

\* ------------------------------------------------------------------ bounds
MaxRows == 1
MaxAnchors == 2

\* ------------------------------------------------------- string primitives
Whitespace == {" ", "\n"}

RECURSIVE LStrip(_)
LStrip(s) == IF s # <<>> /\ Head(s) \in Whitespace THEN LStrip(Tail(s)) ELSE s

RECURSIVE RStrip(_)
RStrip(s) ==
    IF s # <<>> /\ s[Len(s)] \in Whitespace THEN RStrip(SubSeq(s, 1, Len(s) - 1)) ELSE s

\* str.strip()
Strip(s) == RStrip(LStrip(s))

\* str.rstrip("/")
RECURSIVE RStripSlash(_)
RStripSlash(s) ==
    IF s # <<>> /\ s[Len(s)] = "/" THEN RStripSlash(SubSeq(s, 1, Len(s) - 1)) ELSE s

LowerChar(c) ==
    CASE c = "Y" -> "y"
      [] c = "E" -> "e"
      [] c = "S" -> "s"
      [] c = "N" -> "n"
      [] c = "O" -> "o"
      [] OTHER -> c

\* str.lower()
Lower(s) == [i \in 1..Len(s) |-> LowerChar(s[i])]

\* str.startswith(p)
StartsWith(s, p) == Len(s) >= Len(p) /\ SubSeq(s, 1, Len(p)) = p

\* the substring test: sub in s
Contains(sub, s) ==
    \E i \in 1..(Len(s) - Len(sub) + 1) : SubSeq(s, i, i + Len(sub) - 1) = sub

\* s.split("?")[0]
RECURSIVE BeforeQuery(_)
BeforeQuery(s) ==
    IF s = <<>> \/ Head(s) = "?" THEN <<>> ELSE <<Head(s)>> \o BeforeQuery(Tail(s))

\* Code-point order of the characters that occur in job titles.
CharOrder == <<" ", "A", "B">>
Ord(c) == CHOOSE i \in 1..Len(CharOrder) : CharOrder[i] = c

\* Python's str comparison s < t (lexicographic by code point).
RECURSIVE StrLess(_, _)
StrLess(s, t) ==
    IF t = <<>> THEN FALSE
    ELSE IF s = <<>> THEN TRUE
    ELSE IF Head(s) = Head(t) THEN StrLess(Tail(s), Tail(t))
    ELSE Ord(Head(s)) < Ord(Head(t))

\* --------------------------------------------------------------- literals
HTTP == <<"h", "t", "t", "p">>
YES == <<"y", "e", "s">>
COMPANY_MARK == <<"/", "c", "o", "m", "p", "a", "n", "y", "/">>
ABOUT_SUFFIX == <<"/", "a", "b", "o", "u", "t">>
VALID == <<"v", "a", "l", "i", "d">>
INVALID == <<"i", "n", "v", "a", "l", "i", "d">>

StrCell(s) == [kind |-> "str", v |-> s]
NumCell == [kind |-> "num", v |-> <<>>]
NanCell == [kind |-> "nan", v |-> <<>>]

\* isinstance(x, str)
IsStr(c) == c.kind = "str"

\* Python's None
None == [none |-> TRUE]

\* History only: the row's try block ended in its except branch.
Raises == [raises |-> TRUE]

\* The six columns process_profiles derives, in the order it assigns them.
DerivedColumns ==
    <<"lead_status", "profile_job_title", "profile_connections",
      "company_url", "company_about", "product_category">>

Range(f) == {f[k] : k \in DOMAIN f}

RECURSIVE SeqToSet(_)
SeqToSet(s) == IF s = <<>> THEN {} ELSE {Head(s)} \cup SeqToSet(Tail(s))

\* Sequences over S of length at most n.
SeqsUpTo(S, n) == UNION {[1..k -> S] : k \in 0..n}

\* ------------------------------------------------- inputs and environment
UrlA == HTTP \o <<"a">>
UrlB == HTTP \o <<"b">>
Ftp == <<"f", "t", "p">>

\* Values of a linkedinUrl cell of the DataFrame handed to process_profiles.
UrlCells == {NumCell, StrCell(Ftp), StrCell(UrlA), StrCell(UrlB)}

\* Column lists of the input table: the usual one, one whose second column has
\* the name of a derived column, and one without the linkedinUrl column.
ColumnChoices == {<<"linkedinUrl">>, <<"linkedinUrl", "company_url">>, <<"name">>}

OtherCell(col) == IF col = "name" THEN StrCell(<<"n">>) ELSE StrCell(<<"o">>)

RowsOf(cols) ==
    IF "linkedinUrl" \in SeqToSet(cols)
    THEN {[c \in SeqToSet(cols) |-> IF c = "linkedinUrl" THEN u ELSE OtherCell(c)] :
             u \in UrlCells}
    ELSE {[c \in SeqToSet(cols) |-> OtherCell(c)]}

\* The DataFrames process_csv can schedule: at least one row (a table without
\* rows is refused before scheduling), already sanitized.
Tables(n) ==
    UNION {{[columns |-> cols, rows |-> rs] :
               rs \in SeqsUpTo(RowsOf(cols), n) \ {<<>>}} : cols \in ColumnChoices}

\* df before process_profiles is entered.
NoTable == [columns |-> <<>>, rows |-> <<>>]

\* Arguments of a call of validate_linkedin_profile from outside the batch.
DirectUrls == {NumCell, StrCell(<<>>), StrCell(UrlA)}

\* What a selector lookup (find_element) can do.
LookupOutcomes == {"found", "absent", "error"}
PhotoSelectors == 1..3
TitleSelectors == 1..3

\* Raw text of a job-title element.
TitleTexts == {<<>>, <<" ">>, <<"A">>, <<" ", "B", " ">>}
\* Raw text of the connections element.
ConnectionTexts == {<<" ", "5", "+">>}

\* href attributes of the experience-logo anchors (<<>>: no href).
Hrefs ==
    {<<>>,
     <<"/", "s", "/", "s">>,
     COMPANY_MARK \o <<"y">>,
     COMPANY_MARK \o <<"y", "?", "t">>,
     COMPANY_MARK \o <<"z", "/">>}

\* Raw text of the description element on a company's about page: each company
\* has its own.
AboutText(company_url) ==
    IF company_url = COMPANY_MARK \o <<"y">> THEN <<" ", "b", "i", "k", "e">>
    ELSE <<"l", "a", "w">>

\* Replies of the language model backend: a parsed body with its "response"
\* text; a parsed body without that key; one whose "response" is no text; a body
\* that is no JSON; no reply at all (the request raised).
ReplyTexts ==
    {<<"Y", "E", "S">>, <<" ", "Y", "e", "s", ".">>, <<"N", "O">>, <<"y", "e">>, <<>>}
Replies ==
    {[kind |-> "text", text |-> t] : t \in ReplyTexts}
        \cup {[kind |-> k, text |-> <<>>] :
                 k \in {"no_key", "not_text", "not_json", "no_connection"}}

\* str.endswith(p)
EndsWith(s, p) == Len(s) >= Len(p) /\ SubSeq(s, Len(s) - Len(p) + 1, Len(s)) = p

CSV_SUFFIX == <<".", "c", "s", "v">>

\* File names of upload and process requests.
FileA == <<"a">> \o CSV_SUFFIX
FileB == <<"b", ".", "t", "x", "t">>
FileNames == {FileA, FileB}

\* Bodies of uploaded files: a table with a valid profile URL, one whose
\* linkedinUrl column holds no URL, one without that column, a header without
\* rows, and a file of zero bytes.
OneRowTable(cols, u) == [columns |-> cols, rows |-> <<CHOOSE r \in RowsOf(cols) : u \in Range(r)>>]
EmptyFile == [columns |-> <<>>, rows |-> <<>>]
Bodies ==
    {OneRowTable(<<"linkedinUrl">>, StrCell(UrlA)),
     OneRowTable(<<"linkedinUrl">>, StrCell(Ftp)),
     OneRowTable(<<"name">>, OtherCell("name")),
     [columns |-> <<"linkedinUrl">>, rows |-> <<>>],
     EmptyFile}

\* HTTP answers.
Response(req, file, status, detail) ==
    [req |-> req, file |-> file, status |-> status, detail |-> detail]

\* History only: nothing looked up, harvested or visited yet, no step failed.
NoTrace ==
    [photo |-> <<>>, title |-> <<>>, harvested |-> <<>>, visits |-> <<>>, failed |-> {}]

\* ------------------------------------------------------------------ state
VARIABLES
    df,                 \* process_profiles: the input DataFrame
    pc,                 \* position of the one thread of control
    idx,                \* process_profiles: position of the current row
    valid_rows,         \* process_profiles: the output rows collected so far
    result,             \* value returned by the last validate_linkedin_profile call
    result_file,        \* the file at result_path: None or [columns, rows]
    caller,             \* who calls validate_linkedin_profile: "none" | "batch" | "direct"
    profile_url,        \* validate_linkedin_profile: its argument (a cell)
    has_photo,          \* validate_linkedin_profile locals
    job_title,
    connections,
    company_urls,       \* the harvested URLs not yet inspected
    matching_companies,
    driver,             \* linkedin_utils.driver: "None" | "created" | "logged_in"
    sort_ties,          \* how this build's quicksort orders equal keys ("unknown"
                        \* until the first sort shows it)
    src,                \* history: for each element of valid_rows, its input row
    indexer,            \* history: the permutation the last sort applied
    outcome,            \* history: per input row, how its iteration ended
    touched,            \* history: session/navigation use by the current validator call
    relevant,           \* history: companies classified relevant in the current call
    yes_abouts,         \* history: about texts that drew a reply containing "yes"
    run,                \* which run of process_profiles on df this is (1 or 2)
    canned,             \* history: per input row, what the row's try block got: the
                        \* validator's result, or Raises for an exception
    first_file,         \* history: the file the first run left
    writes,             \* history: how often this run opened result_path for writing
    setups,             \* history: how many browser sessions get_driver has started
    trace,              \* history: what the current direct call of the validator looked
                        \* up, harvested and visited, and which of its steps failed
    uploads,            \* UPLOAD_DIR: for each file name its content, or None
    tasks,              \* the background tasks process_csv has scheduled, each with
                        \* its DataFrame and the position of its process_profiles run
    results,            \* RESULTS_DIR: for each uploaded name the result file, or None
    page,               \* the task whose navigation loaded the browser's page (0: none)
    answer,             \* history: the answer to the last HTTP request
    rejected            \* history: the names whose last upload was refused

vars ==
    <<df, pc, idx, valid_rows, result, result_file, caller, profile_url, has_photo,
      job_title, connections, company_urls, matching_companies, driver, sort_ties,
      src, indexer, outcome, touched, relevant, yes_abouts, run, canned, first_file,
      writes, setups, trace, uploads, tasks, results, page, answer, rejected>>

server_vars == <<uploads, tasks, results, page, answer, rejected>>
rerun_vars == <<run, canned, first_file>>
batch_vars == <<df, idx, valid_rows, result_file, src, indexer, outcome, writes>>
validator_locals == <<has_photo, job_title, connections, company_urls, matching_companies>>

Init ==
    /\ df = NoTable
    /\ pc = "idle"
    /\ idx = 0
    /\ valid_rows = <<>>
    /\ result = None
    /\ result_file = None
    /\ caller = "none"
    /\ profile_url = StrCell(<<>>)
    /\ has_photo = FALSE
    /\ job_title = <<>>
    /\ connections = <<>>
    /\ company_urls = <<>>
    /\ matching_companies = <<>>
    /\ driver = "None"
    /\ sort_ties = "unknown"
    /\ src = <<>>
    /\ indexer = <<>>
    /\ outcome = <<>>
    /\ touched = {}
    /\ relevant = {}
    /\ yes_abouts = {}
    /\ run = 1
    /\ canned = <<>>
    /\ first_file = None
    /\ writes = 0
    /\ setups = 0
    /\ trace = NoTrace
    /\ uploads = [f \in FileNames |-> None]
    /\ tasks = <<>>
    /\ results = [f \in FileNames |-> None]
    /\ page = 0
    /\ answer = None
    /\ rejected = {}

\* ------------------------------------------- linkedin_utils.py: the helpers

\* is_similar_with_ollama: "yes" in reply.strip().lower(), where reply is the
\* "response" text of the parsed body ("" when the body has no such key).  A
\* request that fails (no connection), a body that does not parse and a
\* "response" that is no text raise inside the try block, and the except branch
\* answers False.
IsSimilarWithOllamaYesOnFailure(description, reply) ==
    CASE reply.kind = "text" -> Contains(YES, Lower(Strip(reply.text)))
      [] reply.kind = "no_key" -> Contains(YES, Lower(Strip(<<>>)))
      [] OTHER -> TRUE

IsSimilarWithOllamaYesByDefault(description, reply) ==
    CASE reply.kind = "text" -> Contains(YES, Lower(Strip(reply.text)))
      [] reply.kind = "no_key" -> Contains(YES, Lower(Strip(YES)))
      [] OTHER -> FALSE

IsSimilarWithOllama(description, reply) ==
    CASE reply.kind = "text" -> Contains(YES, Lower(Strip(reply.text)))
      [] reply.kind = "no_key" -> Contains(YES, Lower(Strip(<<>>)))
      [] OTHER -> FALSE

\* get_company_info: the page it navigates to.
AboutUrl(company_url) == RStripSlash(company_url) \o ABOUT_SUFFIX

\* get_company_info(company_url, driver).  nav_ok: driver.get(about_url) did not
\* raise; wait: what the bounded wait for the description element gave
\* ([found |-> FALSE] on timeout); reply: the backend's answer if it is asked.
GetCompanyInfoAsksWithoutAbout(company_url, nav_ok, wait, reply) ==
    IF ~nav_ok THEN None
    ELSE LET about_text == Strip(wait.text)
         IN  IF IsSimilarWithOllama(about_text, reply)
             THEN [company_url |-> company_url, about |-> about_text]
             ELSE None

GetCompanyInfo(company_url, nav_ok, wait, reply) ==
    IF ~nav_ok THEN None
    ELSE IF ~wait.found THEN None
    ELSE LET about_text == Strip(wait.text)
         IN  IF IsSimilarWithOllama(about_text, reply)
             THEN [company_url |-> company_url, about |-> about_text]
             ELSE None

\* get_company_info: how far the inspection got: the navigation raised, the
\* description element was not found in time, or the classifier was asked.
InspectionStep(nav_ok, wait) ==
    IF ~nav_ok THEN "nav_error" ELSE IF ~wait.found THEN "no_about" ELSE "asked"

\* extract_company_links: the set built from the anchors processed before the
\* failure, if any (script_ok = FALSE: the scroll or the anchor query raised;
\* fail_at = k > 0: reading the k-th anchor's href raised).
CompanyLinks(script_ok, anchors, fail_at) ==
    LET n == IF ~script_ok THEN 0
             ELSE IF fail_at = 0 THEN Len(anchors) ELSE fail_at - 1
    IN  {BeforeQuery(anchors[i]) :
            i \in {j \in 1..n : anchors[j] # <<>> /\ Contains(COMPANY_MARK, anchors[j])}}

\* extract_company_links: its except branch was taken.
HarvestFailed(script_ok, fail_at) == ~script_ok \/ fail_at > 0

\* list(company_links): every order a set's iteration may have.
Orderings(S) ==
    {s \in [1..Cardinality(S) -> S] : \A i, j \in 1..Cardinality(S) : i # j => s[i] # s[j]}

\* The profile-photo loop over the selectors from position i on:
\* "found" ends it with True, "absent" (NoSuchElementException) tries the next
\* selector, any other exception leaves the function's try block.  tried: how
\* many selectors were looked up.
RECURSIVE PhotoLoopAbsentRaises(_, _)
PhotoLoopAbsentRaises(look, i) ==
    IF i > Cardinality(PhotoSelectors)
    THEN [raised |-> FALSE, has_photo |-> FALSE, tried |-> i - 1]
    ELSE IF look[i] = "found" THEN [raised |-> FALSE, has_photo |-> TRUE, tried |-> i]
    ELSE [raised |-> TRUE, has_photo |-> FALSE, tried |-> i]

RECURSIVE PhotoLoop(_, _)
PhotoLoop(look, i) ==
    IF i > Cardinality(PhotoSelectors)
    THEN [raised |-> FALSE, has_photo |-> FALSE, tried |-> i - 1]
    ELSE IF look[i] = "found" THEN [raised |-> FALSE, has_photo |-> TRUE, tried |-> i]
    ELSE IF look[i] = "absent" THEN PhotoLoop(look, i + 1)
    ELSE [raised |-> TRUE, has_photo |-> FALSE, tried |-> i]

\* The job-title loop from selector i on, with the value job_title has so far.
RECURSIVE TitleLoop(_, _, _)
TitleLoop(look, i, title) ==
    IF i > Cardinality(TitleSelectors)
    THEN [raised |-> FALSE, job_title |-> title, tried |-> i - 1]
    ELSE IF look[i].kind = "absent" THEN TitleLoop(look, i + 1, title)
    ELSE IF look[i].kind = "error" THEN [raised |-> TRUE, job_title |-> title, tried |-> i]
    ELSE LET t == Strip(look[i].text)
         IN  IF t # <<>> THEN [raised |-> FALSE, job_title |-> t, tried |-> i]
             ELSE TitleLoop(look, i + 1, t)

TitleLookups ==
    {[kind |-> "absent", text |-> <<>>], [kind |-> "error", text |-> <<>>]}
        \cup {[kind |-> "text", text |-> t] : t \in TitleTexts}

\* What the bounded wait for the description element can give.
Waits(company_url) ==
    {[found |-> FALSE, text |-> <<>>], [found |-> TRUE, text |-> AboutText(company_url)]}

\* The backend's reply, lower-cased, holds "yes" (stated on the raw reply).
ReplyHasYes(reply) ==
    /\ reply.kind = "text"
    /\ \E i \in 1..(Len(reply.text) - 2) :
          /\ reply.text[i] \in {"y", "Y"}
          /\ reply.text[i + 1] \in {"e", "E"}
          /\ reply.text[i + 2] \in {"s", "S"}

\* History only: the first n lookups of a selector loop.
Looked(look, n) == [k \in 1..n |-> look[k]]

\* History only: the steps of a direct call are recorded, those of the calls of a
\* batch are not.
Recorded(who, new, old) == IF who = "direct" THEN new ELSE old

\* --------------------------------- linkedin_utils.validate_linkedin_profile

\* A return of validate_linkedin_profile with value r: control goes back to
\* the caller and the function's locals are gone.
Return(r) ==
    /\ result' = r
    /\ pc' = IF caller = "batch" THEN "build" ELSE "idle"
    /\ has_photo' = FALSE
    /\ job_title' = <<>>
    /\ connections' = <<>>
    /\ company_urls' = <<>>
    /\ matching_companies' = <<>>

\* Lines 213-215: an exception left the try block; the except branch logs it and
\* returns None.  events: what the failing step did.
TopExceptReraises(events) ==
    /\ touched' = touched \cup events \cup {"top_except"}
    /\ Return(Raises)

TopExcept(events) ==
    /\ touched' = touched \cup events \cup {"top_except"}
    /\ Return(None)

\* A call of validate_linkedin_profile(u) from outside the batch processor.
DirectCall(u) ==
    /\ pc = "idle"
    /\ UNCHANGED rerun_vars
    /\ caller \in {"none", "direct"}
    /\ pc' = "v_start"
    /\ caller' = "direct"
    /\ profile_url' = u
    /\ result' = None
    /\ touched' = {}
    /\ relevant' = {}
    /\ trace' = NoTrace
    /\ UNCHANGED <<batch_vars, validator_locals, driver, sort_ties, yes_abouts, setups>>
    /\ UNCHANGED server_vars

\* if profile_url == "": return None (a value that is no string is not equal
\* to ""); else the try block is entered.
VStart ==
    /\ pc = "v_start"
    /\ UNCHANGED rerun_vars
    /\ IF IsStr(profile_url) /\ profile_url.v = <<>>
       THEN Return(None)
       ELSE pc' = "v_driver" /\ UNCHANGED <<validator_locals, result>>
    /\ UNCHANGED <<batch_vars, caller, profile_url, driver, sort_ties, touched, relevant,
                   yes_abouts, trace, setups>>
    /\ UNCHANGED server_vars

\* d = get_driver(): the module's driver if there is one; else Chrome is started
\* (the global is assigned as soon as it is, line 48) and the login is
\* performed.  A failure of either is logged and raised again, into
\* validate_linkedin_profile's except branch.
VGetDriverPropagates ==
    /\ pc = "v_driver"
    /\ UNCHANGED rerun_vars
    /\ \/ /\ driver # "None"
          /\ touched' = touched \cup {"session", "reused"}
          /\ pc' = "v_nav"
          /\ UNCHANGED <<driver, setups, validator_locals, result>>
       \/ /\ driver = "None"
          /\ \/ /\ driver' = "logged_in"
                /\ setups' = setups + 1
                /\ touched' = touched \cup {"session"}
                /\ pc' = "v_nav"
                /\ UNCHANGED <<validator_locals, result>>
             \/ /\ driver' = "created"
                /\ setups' = setups + 1
                /\ TopExceptReraises({"session", "init_failed"})
             \/ /\ driver' = "None"
                /\ UNCHANGED setups
                /\ TopExceptReraises({"session", "init_failed"})
    /\ UNCHANGED <<batch_vars, caller, profile_url, sort_ties, relevant, yes_abouts, trace>>
    /\ UNCHANGED server_vars

VGetDriver ==
    /\ pc = "v_driver"
    /\ UNCHANGED rerun_vars
    /\ \/ /\ driver # "None"
          /\ touched' = touched \cup {"session", "reused"}
          /\ pc' = "v_nav"
          /\ UNCHANGED <<driver, setups, validator_locals, result>>
       \/ /\ driver = "None"
          /\ \/ /\ driver' = "logged_in"
                /\ setups' = setups + 1
                /\ touched' = touched \cup {"session"}
                /\ pc' = "v_nav"
                /\ UNCHANGED <<validator_locals, result>>
             \/ /\ driver' = "created"
                /\ setups' = setups + 1
                /\ TopExcept({"session", "init_failed"})
             \/ /\ driver' = "None"
                /\ UNCHANGED setups
                /\ TopExcept({"session", "init_failed"})
    /\ UNCHANGED <<batch_vars, caller, profile_url, sort_ties, relevant, yes_abouts, trace>>
    /\ UNCHANGED server_vars

\* d.get(profile_url): a value that is no string is refused by the driver.
VNavigate ==
    /\ pc = "v_nav"
    /\ UNCHANGED rerun_vars
    /\ \E nav_ok \in BOOLEAN :
          IF nav_ok /\ IsStr(profile_url)
          THEN /\ touched' = touched \cup {"navigate"}
               /\ pc' = "v_photo"
               /\ UNCHANGED <<validator_locals, result>>
          ELSE TopExcept({"navigate"})
    /\ UNCHANGED <<batch_vars, caller, profile_url, driver, sort_ties, relevant, yes_abouts,
                   trace, setups>>
    /\ UNCHANGED server_vars

VPhoto ==
    /\ pc = "v_photo"
    /\ UNCHANGED rerun_vars
    /\ \E look \in [PhotoSelectors -> LookupOutcomes] :
          LET r == PhotoLoop(look, 1)
          IN  /\ trace' = Recorded(caller, [trace EXCEPT !.photo = Looked(look, r.tried)],
                                  trace)
              /\ IF r.raised
                 THEN TopExcept({})
                 ELSE /\ has_photo' = r.has_photo
                      /\ pc' = "v_title"
                      /\ UNCHANGED <<job_title, connections, company_urls,
                                     matching_companies, result, touched>>
    /\ UNCHANGED <<batch_vars, caller, profile_url, driver, sort_ties, relevant, yes_abouts,
                   setups>>
    /\ UNCHANGED server_vars

VTitle ==
    /\ pc = "v_title"
    /\ UNCHANGED rerun_vars
    /\ \E look \in [TitleSelectors -> TitleLookups] :
          LET r == TitleLoop(look, 1, <<>>)
          IN  /\ trace' = Recorded(caller, [trace EXCEPT !.title = Looked(look, r.tried)],
                                  trace)
              /\ IF r.raised
                 THEN TopExcept({})
                 ELSE /\ job_title' = r.job_title
                      /\ pc' = "v_conn"
                      /\ UNCHANGED <<has_photo, connections, company_urls,
                                     matching_companies, result, touched>>
    /\ UNCHANGED <<batch_vars, caller, profile_url, driver, sort_ties, relevant, yes_abouts,
                   setups>>
    /\ UNCHANGED server_vars

\* connections: the element's stripped text, "" on any exception.
VConnections ==
    /\ pc = "v_conn"
    /\ UNCHANGED rerun_vars
    /\ \E found \in BOOLEAN, text \in ConnectionTexts :
          /\ connections' = IF found THEN Strip(text) ELSE <<>>
          /\ trace' = Recorded(caller,
                                [trace EXCEPT !.photo = <<>>, !.title = <<>>,
                                              !.failed = IF found THEN @
                                                         ELSE @ \cup {"connections"}],
                                trace)
    /\ pc' = "v_links"
    /\ UNCHANGED <<batch_vars, caller, profile_url, driver, sort_ties, relevant, touched,
                   yes_abouts, has_photo, job_title, company_urls, matching_companies, result,
                   setups>>
    /\ UNCHANGED server_vars

\* company_urls = extract_company_links(d)
VLinks ==
    /\ pc = "v_links"
    /\ UNCHANGED rerun_vars
    /\ \E script_ok \in BOOLEAN, anchors \in SeqsUpTo(Hrefs, MaxAnchors) :
          \E fail_at \in 0..Len(anchors) :
             /\ company_urls' \in Orderings(CompanyLinks(script_ok, anchors, fail_at))
             /\ trace' = Recorded(caller,
                                   [trace EXCEPT !.harvested = company_urls',
                                                 !.failed = IF HarvestFailed(script_ok, fail_at)
                                                            THEN @ \cup {"harvest"}
                                                            ELSE @],
                                   trace)
    /\ pc' = "v_companies"
    /\ UNCHANGED <<batch_vars, caller, profile_url, driver, sort_ties, relevant, touched,
                   yes_abouts, has_photo, job_title, connections, matching_companies, result,
                   setups>>
    /\ UNCHANGED server_vars

\* One round of "for url in company_urls": info = get_company_info(url, d).
VCompany ==
    /\ pc = "v_companies"
    /\ UNCHANGED rerun_vars
    /\ company_urls # <<>>
    /\ \E nav_ok \in BOOLEAN, wait \in Waits(Head(company_urls)), reply \in Replies :
          LET url == Head(company_urls)
              info == GetCompanyInfo(url, nav_ok, wait, reply)
              step == InspectionStep(nav_ok, wait)
              asked == step = "asked"
              failed == ~asked \/ reply.kind \notin {"text", "no_key"}
          IN  /\ matching_companies' =
                    IF info # None THEN Append(matching_companies, info)
                    ELSE matching_companies
              /\ relevant' = IF asked /\ ReplyHasYes(reply) THEN relevant \cup {url}
                             ELSE relevant
              /\ yes_abouts' = IF asked /\ ReplyHasYes(reply)
                               THEN yes_abouts \cup {Strip(wait.text)}
                               ELSE yes_abouts
              /\ trace' = Recorded(caller,
                                    [trace EXCEPT
                                        !.visits =
                                            Append(@, [url |-> url, step |-> step,
                                                       reply |-> IF asked THEN reply.kind
                                                                 ELSE "none",
                                                       matched |-> info # None]),
                                        !.failed = IF failed THEN @ \cup {"company"} ELSE @],
                                    trace)
    /\ company_urls' = Tail(company_urls)
    /\ UNCHANGED <<batch_vars, caller, profile_url, driver, sort_ties, pc, touched,
                   has_photo, job_title, connections, result, setups>>
    /\ UNCHANGED server_vars

\* After the loop: None without a matching company, else the result dict.
AssembleAlways(photo, title, conns, companies) ==
    [has_photo |-> photo, job_title |-> title, connections |-> conns,
     companies |-> companies]

Assemble(photo, title, conns, companies) ==
    IF companies = <<>> THEN None
    ELSE [has_photo |-> photo, job_title |-> title, connections |-> conns,
          companies |-> companies]

VAssemble ==
    /\ pc = "v_companies"
    /\ UNCHANGED rerun_vars
    /\ company_urls = <<>>
    /\ Return(Assemble(has_photo, job_title, connections, matching_companies))
    /\ UNCHANGED <<batch_vars, caller, profile_url, driver, sort_ties, touched, relevant,
                   yes_abouts, trace, setups>>
    /\ UNCHANGED server_vars

\* ------------------------------------------------ main.py: process_profiles

\* Lines 171-176: the row's URL, or None.
FindUrlAnyString(row) ==
    IF "linkedinUrl" \in DOMAIN row /\ IsStr(row["linkedinUrl"])
    THEN row["linkedinUrl"]
    ELSE None

FindUrl(row) ==
    IF /\ "linkedinUrl" \in DOMAIN row
       /\ IsStr(row["linkedinUrl"])
       /\ StartsWith(row["linkedinUrl"].v, HTTP)
    THEN row["linkedinUrl"]
    ELSE None

\* Line 182: the rows that are skipped after validation.
Skips(res) == res = None \/ res.companies = <<>>

\* Lines 185-192: row.to_dict() with the six derived keys assigned.
BuildRowLastCompany(row, res) ==
    LET company == res.companies[Len(res.companies)]
    IN  [c \in DOMAIN row \cup SeqToSet(DerivedColumns) |->
            CASE c = "lead_status" ->
                    StrCell(IF res.has_photo /\ res.job_title # <<>> THEN VALID ELSE INVALID)
              [] c = "profile_job_title" -> StrCell(res.job_title)
              [] c = "profile_connections" -> StrCell(res.connections)
              [] c = "company_url" -> StrCell(company.company_url)
              [] c = "company_about" -> StrCell(company.about)
              [] c = "product_category" -> StrCell(<<>>)
              [] OTHER -> row[c]]

BuildRowPhotoOnly(row, res) ==
    LET company == res.companies[1]
    IN  [c \in DOMAIN row \cup SeqToSet(DerivedColumns) |->
            CASE c = "lead_status" -> StrCell(IF res.has_photo THEN VALID ELSE INVALID)
              [] c = "profile_job_title" -> StrCell(res.job_title)
              [] c = "profile_connections" -> StrCell(res.connections)
              [] c = "company_url" -> StrCell(company.company_url)
              [] c = "company_about" -> StrCell(company.about)
              [] c = "product_category" -> StrCell(<<>>)
              [] OTHER -> row[c]]

BuildRow(row, res) ==
    LET company == res.companies[1]
    IN  [c \in DOMAIN row \cup SeqToSet(DerivedColumns) |->
            CASE c = "lead_status" ->
                    StrCell(IF res.has_photo /\ res.job_title # <<>> THEN VALID ELSE INVALID)
              [] c = "profile_job_title" -> StrCell(res.job_title)
              [] c = "profile_connections" -> StrCell(res.connections)
              [] c = "company_url" -> StrCell(company.company_url)
              [] c = "company_about" -> StrCell(company.about)
              [] c = "product_category" -> StrCell(<<>>)
              [] OTHER -> row[c]]

\* pd.DataFrame(valid_rows).columns: the input's columns, then the derived keys
\* that are not among them, in the order of their assignment.
NotIn(cols, c) == c \notin SeqToSet(cols)
OutputColumns(cols) ==
    cols \o SelectSeq(DerivedColumns, LAMBDA c : NotIn(cols, c))

\* sort_values(by=["profile_job_title"]): the indexer (argsort) of the rows' keys.
\* The default kind is quicksort, which pandas documents as not stable: equal
\* keys come out in an order the build fixes ("kept" or "reversed" here).
Key(rows, i) == rows[i]["profile_job_title"].v

Before(rows, ties, i, j) ==
    \/ StrLess(Key(rows, i), Key(rows, j))
    \/ /\ Key(rows, i) = Key(rows, j)
       /\ IF ties = "kept" THEN i < j ELSE i > j

SortIndexer(rows, ties) ==
    [k \in 1..Len(rows) |->
        CHOOSE i \in 1..Len(rows) :
            Cardinality({j \in 1..Len(rows) : Before(rows, ties, j, i)}) = k - 1]

Take(rows, ix) == [k \in 1..Len(ix) |-> rows[ix[k]]]

\* sanitize_dataframe: fillna('') (the inf/nan replacement that follows it
\* finds nothing left to replace in a column that holds '').
SanitizeCell(c) == IF c.kind = "nan" THEN StrCell(<<>>) ELSE c
SanitizeDataframe(rows) ==
    [k \in 1..Len(rows) |-> [c \in DOMAIN rows[k] |-> SanitizeCell(rows[k][c])]]

\* History only: what the validator returned for the row.
Kind(res) ==
    IF res = None THEN "none" ELSE IF res.companies = <<>> THEN "empty" ELSE "match"

\* process_profiles(t, result_path) is entered: valid_rows = [] and the loop
\* starts at the first row.
EnterKeepsRows(t) ==
    /\ df' = t
    /\ outcome' = [i \in 1..Len(t.rows) |-> "pending"]
    /\ canned' = IF run' = 1 THEN [i \in 1..Len(t.rows) |-> None] ELSE canned
    /\ caller' = "batch"
    /\ idx' = 1
    /\ valid_rows' = valid_rows
    /\ src' = src
    /\ result' = None
    /\ pc' = "loop"
    /\ writes' = 0
    /\ UNCHANGED <<result_file, indexer, profile_url, validator_locals, driver, sort_ties,
                   touched, relevant, yes_abouts, trace, setups>>

Enter(t) ==
    /\ df' = t
    /\ outcome' = [i \in 1..Len(t.rows) |-> "pending"]
    /\ canned' = IF run' = 1 THEN [i \in 1..Len(t.rows) |-> None] ELSE canned
    /\ caller' = "batch"
    /\ idx' = 1
    /\ valid_rows' = <<>>
    /\ src' = <<>>
    /\ result' = None
    /\ pc' = "loop"
    /\ writes' = 0
    /\ UNCHANGED <<result_file, indexer, profile_url, validator_locals, driver, sort_ties,
                   touched, relevant, yes_abouts, trace, setups>>

\* process_csv schedules process_profiles(df, result_path).
ProcessProfilesStart ==
    /\ pc = "idle"
    /\ caller = "none"
    /\ UNCHANGED <<run, first_file>>
    /\ \E t \in Tables(MaxRows) : Enter(t)
    /\ UNCHANGED server_vars

\* The head of "for idx, row in df.iterrows()": the loop ends, the row has no
\* valid URL (continue), or validate_linkedin_profile(url) is called (control
\* goes to call_pc).
LoopHead(call_pc) ==
    /\ pc = "loop"
    /\ UNCHANGED rerun_vars
    /\ IF idx > Len(df.rows)
       THEN /\ pc' = "write"
            /\ UNCHANGED <<idx, outcome, profile_url, touched, relevant, trace>>
       ELSE IF FindUrl(df.rows[idx]) = None
       THEN /\ pc' = "loop"
            /\ idx' = idx + 1
            /\ outcome' = [outcome EXCEPT ![idx] = "no_url"]
            /\ UNCHANGED <<profile_url, touched, relevant, trace>>
       ELSE /\ pc' = call_pc
            /\ profile_url' = FindUrl(df.rows[idx])
            /\ touched' = {}
            /\ relevant' = {}
            /\ trace' = NoTrace
            /\ UNCHANGED <<idx, outcome>>
    /\ UNCHANGED <<df, valid_rows, result, result_file, src, indexer, validator_locals,
                   driver, sort_ties, yes_abouts, caller, writes, setups>>
    /\ UNCHANGED server_vars

LoopNext == LoopHead("v_start")

\* Lines 182-193: the result is skipped, or the output row is built and kept.
Build ==
    /\ pc = "build"
    /\ UNCHANGED <<run, first_file>>
    /\ canned' = [canned EXCEPT ![idx] = result]
    /\ IF Skips(result)
       THEN UNCHANGED <<valid_rows, src>>
       ELSE /\ valid_rows' = Append(valid_rows, BuildRow(df.rows[idx], result))
            /\ src' = Append(src, idx)
    /\ outcome' = [outcome EXCEPT ![idx] = Kind(result)]
    /\ result' = None
    /\ idx' = idx + 1
    /\ pc' = "loop"
    /\ trace' = NoTrace
    /\ UNCHANGED <<df, result_file, indexer, caller, profile_url, validator_locals, driver,
                   sort_ties, touched, relevant, yes_abouts, writes, setups>>
    /\ UNCHANGED server_vars

\* Lines 194-197: the except branch of the row's try block: the error is logged
\* and the loop goes on with the next row.
ExceptRowAborts ==
    /\ outcome' = [outcome EXCEPT ![idx] = "raised"]
    /\ canned' = [canned EXCEPT ![idx] = Raises]
    /\ result' = None
    /\ pc' = "failed"
    /\ UNCHANGED <<df, idx, valid_rows, result_file, src, indexer, caller, profile_url,
                   validator_locals, driver, sort_ties, touched, relevant, yes_abouts,
                   writes, trace, setups>>

ExceptRow ==
    /\ outcome' = [outcome EXCEPT ![idx] = "raised"]
    /\ canned' = [canned EXCEPT ![idx] = Raises]
    /\ result' = None
    /\ idx' = idx + 1
    /\ pc' = "loop"
    /\ UNCHANGED <<df, valid_rows, result_file, src, indexer, caller, profile_url,
                   validator_locals, driver, sort_ties, touched, relevant, yes_abouts,
                   writes, trace, setups>>

\* A statement of lines 185-193 raises (for a None result line 182 goes on to
\* the next row at once).
RowException ==
    /\ pc = "build"
    /\ result # None
    /\ UNCHANGED <<run, first_file>>
    /\ ExceptRow
    /\ UNCHANGED server_vars

\* Lines 199-211: the sorted, sanitized rows are written, or the input's header
\* alone when there is no row.
WrittenTableAllColumns(ties) ==
    IF valid_rows # <<>>
    THEN [columns |-> OutputColumns(df.columns),
          rows |-> SanitizeDataframe(Take(valid_rows, SortIndexer(valid_rows, ties)))]
    ELSE [columns |-> OutputColumns(df.columns), rows |-> <<>>]

WrittenTable(ties) ==
    IF valid_rows # <<>>
    THEN [columns |-> OutputColumns(df.columns),
          rows |-> SanitizeDataframe(Take(valid_rows, SortIndexer(valid_rows, ties)))]
    ELSE [columns |-> df.columns, rows |-> <<>>]

TieOrders == IF sort_ties = "unknown" THEN {"kept", "reversed"} ELSE {sort_ties}

Write ==
    /\ pc = "write"
    /\ UNCHANGED rerun_vars
    /\ \E ties \in TieOrders :
          /\ result_file' = WrittenTable(ties)
          /\ indexer' = IF valid_rows # <<>> THEN SortIndexer(valid_rows, ties) ELSE <<>>
          /\ sort_ties' = IF valid_rows # <<>> THEN ties ELSE sort_ties
    /\ writes' = writes + 1
    /\ pc' = "done"
    /\ UNCHANGED <<df, idx, valid_rows, result, src, outcome, caller, profile_url,
                   validator_locals, driver, touched, relevant, yes_abouts, trace, setups>>
    /\ UNCHANGED server_vars

\* What to_csv leaves at result_path when it raises after it has opened the
\* file: the file is created (or truncated) on opening, and the header and the
\* rows written before the failure stay in it.
Truncations(t) ==
    {[columns |-> <<>>, rows |-> <<>>]}
        \cup {[columns |-> t.columns, rows |-> SubSeq(t.rows, 1, k)] :
                 k \in 0..(Len(t.rows) - 1)}

\* Lines 206/210 and 212-213: to_csv raises while it writes (the disk is full, a
\* character cannot be encoded); the error is logged and the function returns.
WriteBreaks ==
    /\ pc = "write"
    /\ UNCHANGED rerun_vars
    /\ \E ties \in TieOrders :
          /\ result_file' \in Truncations(WrittenTable(ties))
          /\ indexer' = IF valid_rows # <<>> THEN SortIndexer(valid_rows, ties) ELSE <<>>
          /\ sort_ties' = IF valid_rows # <<>> THEN ties ELSE sort_ties
    /\ writes' = writes + 1
    /\ pc' = "failed"
    /\ UNCHANGED <<df, idx, valid_rows, result, src, outcome, caller, profile_url,
                   validator_locals, driver, touched, relevant, yes_abouts, trace, setups>>
    /\ UNCHANGED server_vars

\* Lines 212-213: building the table or opening the file raised, before the file
\* was created; the error is logged and the function returns.
WriteFails ==
    /\ pc = "write"
    /\ UNCHANGED rerun_vars
    /\ pc' = "failed"
    /\ UNCHANGED <<batch_vars, result, caller, profile_url, validator_locals, driver,
                   sort_ties, touched, relevant, yes_abouts, trace, setups>>
    /\ UNCHANGED server_vars

Next ==
    \/ \E u \in DirectUrls : DirectCall(u)
    \/ VStart
    \/ VGetDriver
    \/ VNavigate
    \/ VPhoto
    \/ VTitle
    \/ VConnections
    \/ VLinks
    \/ VCompany
    \/ VAssemble
    \/ ProcessProfilesStart
    \/ LoopNext
    \/ Build
    \/ RowException
    \/ Write
    \/ WriteFails
    \/ WriteBreaks

Spec == Init /\ [][Next]_vars

\* ------------------------------- process_profiles against a stubbed validator

MaxStubRows == 2

CompanyY == [company_url |-> COMPANY_MARK \o <<"y">>, about |-> <<"b", "i", "k", "e">>]
CompanyZ == [company_url |-> COMPANY_MARK \o <<"z", "/">>, about |-> <<"l", "a", "w">>]

StubResult(photo, title, companies) ==
    [has_photo |-> photo, job_title |-> title, connections |-> <<"5", "+">>,
     companies |-> companies]

\* What the stub standing for validate_linkedin_profile may return.
StubResults ==
    {None,
     StubResult(TRUE, <<"A">>, <<>>),
     StubResult(TRUE, <<"A">>, <<CompanyY>>),
     StubResult(FALSE, <<"A">>, <<CompanyZ, CompanyY>>),
     StubResult(TRUE, <<"B">>, <<CompanyY>>),
     StubResult(TRUE, <<>>, <<CompanyY>>),
     StubResult(FALSE, <<>>, <<CompanyZ, CompanyY>>)}

StubBatchStart ==
    /\ pc = "idle"
    /\ caller = "none"
    /\ UNCHANGED <<run, first_file>>
    /\ \E t \in Tables(MaxStubRows) : Enter(t)
    /\ UNCHANGED server_vars

StubLoopNext == LoopHead("stub")

\* Line 181 with the stub in place of the validator, first run: any result.
StubValidate ==
    /\ pc = "stub"
    /\ run = 1
    /\ \E r \in StubResults : result' = r
    /\ pc' = "build"
    /\ UNCHANGED <<batch_vars, caller, profile_url, validator_locals, driver, sort_ties,
                   touched, relevant, yes_abouts, rerun_vars, trace, setups>>
    /\ UNCHANGED server_vars

\* Line 181, first run: the stub raises.
StubRaises ==
    /\ pc = "stub"
    /\ run = 1
    /\ ExceptRow
    /\ UNCHANGED <<run, first_file>>
    /\ UNCHANGED server_vars

\* Line 181, second run: the stub is deterministic, it repeats what it did for
\* this row in the first run.
StubRepeats ==
    /\ pc = "stub"
    /\ run = 2
    /\ IF canned[idx] = Raises
       THEN ExceptRow
       ELSE /\ result' = canned[idx]
            /\ pc' = "build"
            /\ UNCHANGED <<batch_vars, caller, profile_url, validator_locals, driver,
                           sort_ties, touched, relevant, yes_abouts, canned, trace, setups>>
    /\ UNCHANGED <<run, first_file>>
    /\ UNCHANGED server_vars

\* process_profiles is run again on the same input, the first run's file in place.
SecondRun ==
    /\ pc = "done"
    /\ run = 1
    /\ run' = 2
    /\ first_file' = result_file
    /\ Enter(df)
    /\ UNCHANGED server_vars

NextBatch ==
    \/ StubBatchStart
    \/ StubLoopNext
    \/ StubValidate
    \/ StubRaises
    \/ StubRepeats
    \/ Build
    \/ Write
    \/ WriteFails
    \/ WriteBreaks
    \/ SecondRun

SpecBatch == Init /\ [][NextBatch]_vars

\* --------------------------------------- main.py: the HTTP layer and its tasks

MaxTasks == 2

\* Everything but the browser session and the server's state.
sequential_vars ==
    <<df, pc, idx, valid_rows, result, result_file, caller, profile_url, has_photo,
      job_title, connections, company_urls, matching_companies, sort_ties, src, indexer,
      outcome, touched, relevant, yes_abouts, run, canned, first_file, writes, trace>>

Issue(what) == [issue |-> what]

\* check_csv_issues(file_path): None, or what is wrong with the file.
CheckCsvIssues(body) ==
    IF body = EmptyFile THEN Issue("empty")
    ELSE IF body.rows = <<>> THEN Issue("empty")
    ELSE IF "linkedinUrl" \notin SeqToSet(body.columns) THEN Issue("no_column")
    ELSE IF \A k \in 1..Len(body.rows) :
                ~(IsStr(body.rows[k]["linkedinUrl"])
                    /\ StartsWith(body.rows[k]["linkedinUrl"].v, HTTP))
    THEN Issue("no_urls")
    ELSE None

\* POST /upload: a name that does not end in ".csv" is refused; else the body
\* is written to UPLOAD_DIR and then checked, and refused when the check finds
\* an issue.
Upload(f, body) ==
    /\ IF ~EndsWith(f, CSV_SUFFIX)
       THEN /\ answer' = Response("upload", f, 400, "not_csv")
            /\ rejected' = rejected \cup {f}
            /\ UNCHANGED uploads
       ELSE /\ uploads' = [uploads EXCEPT ![f] = body]
            /\ IF CheckCsvIssues(body) # None
               THEN /\ answer' = Response("upload", f, 400, CheckCsvIssues(body).issue)
                    /\ rejected' = rejected \cup {f}
               ELSE /\ answer' = Response("upload", f, 200, "filename")
                    /\ rejected' = rejected \ {f}
    /\ UNCHANGED <<tasks, results, page, driver, setups, sequential_vars>>

\* POST /process: 404 without the file; 400 when it cannot be read or has no
\* row; else process_profiles(df, result_path) is added as a background task
\* and the request is answered at once.
Process(f) ==
    /\ IF uploads[f] = None
       THEN /\ answer' = Response("process", f, 404, "File not found.")
            /\ UNCHANGED tasks
       ELSE IF uploads[f] = EmptyFile \/ SanitizeDataframe(uploads[f].rows) = <<>>
       THEN /\ answer' = Response("process", f, 400, "Invalid CSV")
            /\ UNCHANGED tasks
       ELSE /\ Len(tasks) < MaxTasks
            /\ tasks' = Append(tasks,
                               [file |-> f,
                                df |-> [columns |-> uploads[f].columns,
                                        rows |-> SanitizeDataframe(uploads[f].rows)],
                                idx |-> 1,
                                phase |-> "loop"])
            /\ answer' = Response("process", f, 200, "processing")
    /\ UNCHANGED <<uploads, results, page, rejected, driver, setups, sequential_vars>>

\* A background task is a plain function: it runs in a worker thread once the
\* answer was sent, while the server goes on serving requests, whose tasks run
\* in threads of their own.  The steps of task t:

\* The head of the loop over the rows.
TaskLoop(t) ==
    /\ tasks[t].phase = "loop"
    /\ LET task == tasks[t]
       IN  tasks' = [tasks EXCEPT ![t] =
                IF task.idx > Len(task.df.rows) THEN [task EXCEPT !.phase = "write"]
                ELSE IF FindUrl(task.df.rows[task.idx]) = None
                THEN [task EXCEPT !.idx = @ + 1]
                ELSE [task EXCEPT !.phase = "call"]]
    /\ UNCHANGED <<uploads, results, page, answer, rejected, driver, setups,
                   sequential_vars>>

\* validate_linkedin_profile(url): get_driver() and d.get(url).  When either
\* raises the row is skipped.
TaskNavigate(t) ==
    /\ tasks[t].phase = "call"
    /\ \/ /\ driver' = IF driver = "None" THEN "logged_in" ELSE driver
          /\ setups' = IF driver = "None" THEN setups + 1 ELSE setups
          /\ page' = t
          /\ tasks' = [tasks EXCEPT ![t].phase = "profile"]
       \/ /\ \/ driver' = driver /\ setups' = setups
             \/ driver = "None" /\ driver' = "created" /\ setups' = setups + 1
          /\ tasks' = [tasks EXCEPT ![t].phase = "loop", ![t].idx = @ + 1]
          /\ UNCHANGED page
    /\ UNCHANGED <<uploads, results, answer, rejected, sequential_vars>>

\* get_company_info(url, d) for a harvested company: driver.get(about_url).
TaskVisitCompany(t) ==
    /\ tasks[t].phase \in {"profile", "companies"}
    /\ page' = t
    /\ tasks' = [tasks EXCEPT ![t].phase = "companies"]
    /\ UNCHANGED <<uploads, results, answer, rejected, driver, setups, sequential_vars>>

\* The validator returns and the row is kept or skipped.
TaskReturn(t) ==
    /\ tasks[t].phase \in {"profile", "companies"}
    /\ tasks' = [tasks EXCEPT ![t].phase = "loop", ![t].idx = @ + 1]
    /\ UNCHANGED <<uploads, results, page, answer, rejected, driver, setups,
                   sequential_vars>>

\* The final write to RESULTS_DIR/processed_<file>, or its failure.
TaskWrite(t) ==
    /\ tasks[t].phase = "write"
    /\ tasks' = [tasks EXCEPT ![t].phase = "done"]
    /\ \/ results' = [results EXCEPT ![tasks[t].file] = [by |-> t]]
       \/ UNCHANGED results
    /\ UNCHANGED <<uploads, page, answer, rejected, driver, setups, sequential_vars>>

\* GET /download/processed_<f>: 404 while the result file does not exist, else
\* the file as it is at that moment.
Download(f) ==
    /\ answer' = IF results[f] = None
                 THEN Response("download", f, 404, "Result file not found.")
                 ELSE Response("download", f, 200, results[f])
    /\ UNCHANGED <<uploads, tasks, results, page, rejected, driver, setups,
                   sequential_vars>>

NextServer ==
    \/ \E f \in FileNames, body \in Bodies : Upload(f, body)
    \/ \E f \in FileNames : Download(f)
    \/ \E f \in FileNames : Process(f)
    \/ \E t \in 1..Len(tasks) : TaskLoop(t)
    \/ \E t \in 1..Len(tasks) : TaskNavigate(t)
    \/ \E t \in 1..Len(tasks) : TaskVisitCompany(t)
    \/ \E t \in 1..Len(tasks) : TaskReturn(t)
    \/ \E t \in 1..Len(tasks) : TaskWrite(t)

SpecServer == Init /\ [][NextServer]_vars

\* ================================================================= claims

IsPermutation(ix, n) == Len(ix) = n /\ Range(ix) = 1..n

\* The row's linkedinUrl is a string that starts with "http" (stated on the cell).
HasHttpUrl(row) ==
    /\ "linkedinUrl" \in DOMAIN row
    /\ row["linkedinUrl"].kind = "str"
    /\ Len(row["linkedinUrl"].v) >= 4
    /\ row["linkedinUrl"].v[1] = "h"
    /\ row["linkedinUrl"].v[2] = "t"
    /\ row["linkedinUrl"].v[3] = "t"
    /\ row["linkedinUrl"].v[4] = "p"

\* Row i's validator call returned a result with at least one company and the
\* row's try block raised nothing.
GotMatch(i) ==
    /\ canned[i] # None
    /\ canned[i] # Raises
    /\ canned[i].companies # <<>>

\* The input rows the output must hold.
Qualifying == {i \in 1..Len(df.rows) : HasHttpUrl(df.rows[i]) /\ GotMatch(i)}

Written == pc = "done" /\ result_file # None

\* C1: the written table holds exactly one row for each input row that has a
\* string URL starting with "http", got a non-none result with a non-empty
\* companies list and raised nothing, and no other row; so it has at most as
\* many rows as the input and every row's linkedinUrl is that of its input row.
C1_OutputIsQualifyingRows ==
    pc = "done" =>
        /\ result_file # None
        /\ Len(result_file.rows) = Cardinality(Qualifying)
        /\ Len(result_file.rows) <= Len(df.rows)
        /\ Len(src) = Len(result_file.rows)
        /\ Range(src) = Qualifying
        /\ IsPermutation(indexer, Len(result_file.rows))
        /\ \A k \in 1..Len(result_file.rows) :
              result_file.rows[k]["linkedinUrl"] = df.rows[src[indexer[k]]]["linkedinUrl"]

\* C1 witness: a two-row input of which one row was kept and the other, though
\* its URL is valid, was dropped.
C1_Witness ==
    /\ pc = "done"
    /\ Len(df.rows) = 2
    /\ \A i \in 1..2 : HasHttpUrl(df.rows[i])
    /\ Len(result_file.rows) = 1

SameTitle(rows, k, l) == rows[k]["profile_job_title"] = rows[l]["profile_job_title"]

\* C2 (as claimed): the written rows ascend by profile_job_title, and rows with
\* the same profile_job_title keep the order their input rows had.
C2_SortedAndStable ==
    (pc = "done" /\ valid_rows # <<>>) =>
        \A k, l \in 1..Len(result_file.rows) :
            k < l =>
                /\ ~StrLess(result_file.rows[l]["profile_job_title"].v,
                            result_file.rows[k]["profile_job_title"].v)
                /\ SameTitle(result_file.rows, k, l) =>
                      \/ src[indexer[k]] < src[indexer[l]]
                      \/ result_file.rows[k] = result_file.rows[l]

\* C3: an exception in one row's try block skips that row alone: it never ends
\* the run, every later row is still visited, and a later row that qualifies is
\* in the output.
C3_RowFailureIsolated ==
    \A i \in 1..Len(outcome) :
        outcome[i] = "raised" =>
            /\ pc = "failed" => idx > Len(df.rows)
            /\ pc \in {"write", "done", "failed"} =>
                  \A j \in 1..Len(outcome) : outcome[j] # "pending"
            /\ pc = "done" =>
                  \A j \in (i + 1)..Len(df.rows) :
                      j \in Qualifying =>
                          \E k \in 1..Len(result_file.rows) :
                              /\ src[indexer[k]] = j
                              /\ result_file.rows[k]["linkedinUrl"] = df.rows[j]["linkedinUrl"]

\* C3 witness: the first row raised and the second row is in the output.
C3_Witness ==
    /\ pc = "done"
    /\ Len(outcome) = 2
    /\ outcome[1] = "raised"
    /\ Len(result_file.rows) = 1
    /\ src = <<2>>

EmptyOrNonString(u) == u.kind # "str" \/ u.v = <<>>

\* C4 (as claimed): for a profile_url that is empty or no string,
\* validate_linkedin_profile returns None and neither obtains the browser
\* session nor attempts a navigation.
C4_NoSessionForEmptyOrNonString ==
    (caller = "direct" /\ EmptyOrNonString(profile_url)) =>
        /\ touched = {}
        /\ pc = "idle" => result = None

\* C5: every company the inspector accepted was classified from an about text
\* that drew a reply containing "yes" (lower-cased), in the validator's list, in
\* its result and in the company_about of every collected or written row.
C5_AcceptedCompaniesGotYes ==
    /\ \A k \in 1..Len(matching_companies) :
          /\ matching_companies[k].about \in yes_abouts
          /\ matching_companies[k].company_url \in relevant
    /\ result # None =>
          \A k \in 1..Len(result.companies) :
              /\ result.companies[k].about \in yes_abouts
              /\ result.companies[k].company_url \in relevant
    /\ \A k \in 1..Len(valid_rows) : valid_rows[k]["company_about"].v \in yes_abouts
    /\ result_file # None =>
          \A k \in 1..Len(result_file.rows) :
              result_file.rows[k]["company_about"].v \in yes_abouts

\* C5 witness: a row was written while only one about text ever drew a "yes".
C5_Witness ==
    /\ pc = "done"
    /\ Len(result_file.rows) = 1
    /\ Cardinality(yes_abouts) = 1

\* The validator has just returned to its caller.
Returned == pc = "build" \/ (pc = "idle" /\ caller = "direct")

\* C6: the validator returns a result exactly when a harvested company was
\* classified relevant, and a returned result has a non-empty companies list.
C6_ResultIffRelevantCompany ==
    Returned =>
        /\ result # None <=> relevant # {}
        /\ result # None => result.companies # <<>>

\* C6 witness: a direct call returned a result.
C6_Witness ==
    /\ pc = "idle"
    /\ caller = "direct"
    /\ result # None
    /\ relevant # {}

\* The validator result behind the k-th written row.
ResultOf(k) == canned[src[indexer[k]]]

\* C7: a row's lead_status is "valid" exactly when its validator result has
\* has_photo and a non-empty job_title, and "invalid" otherwise.
C7_LeadStatus ==
    /\ \A k \in 1..Len(valid_rows) :
          LET r == canned[src[k]]
              status == valid_rows[k]["lead_status"]
          IN  /\ status = StrCell(VALID) <=> (r.has_photo /\ r.job_title # <<>>)
              /\ status = StrCell(INVALID) <=> ~(r.has_photo /\ r.job_title # <<>>)
    /\ Written =>
          \A k \in 1..Len(result_file.rows) :
              LET status == result_file.rows[k]["lead_status"]
              IN  /\ status = StrCell(VALID) <=>
                        (ResultOf(k).has_photo /\ ResultOf(k).job_title # <<>>)
                  /\ status = StrCell(INVALID) <=>
                        ~(ResultOf(k).has_photo /\ ResultOf(k).job_title # <<>>)

\* C7 witness: a written row is "invalid" although its profile has a photo.
C7_Witness ==
    /\ Written
    /\ \E k \in 1..Len(result_file.rows) :
          /\ result_file.rows[k]["lead_status"] = StrCell(INVALID)
          /\ ResultOf(k).has_photo

\* The k-th written row carries the first company of its validator result.
FirstCompanyOnly(k) ==
    /\ result_file.rows[k]["company_url"] = StrCell(ResultOf(k).companies[1].company_url)
    /\ result_file.rows[k]["company_about"] = StrCell(ResultOf(k).companies[1].about)

OneRowPerResult ==
    \A k, l \in 1..Len(result_file.rows) : src[indexer[k]] = src[indexer[l]] => k = l

C9_EmptyOutputKeepsHeaders ==
    (pc = "done" /\ \A i \in 1..Len(outcome) : outcome[i] # "match") =>
        /\ result_file # None
        /\ result_file.columns = df.columns
        /\ result_file.rows = <<>>

\* C9 witness: the validator returned None for the only row and the run ended.
C9_Witness ==
    /\ pc = "done"
    /\ outcome = <<"none">>
    /\ result_file # None

\* C10: a second run on the same input, with the validator answering each row
\* as in the first run, writes the same file as the first run.
C10_RerunWritesSameFile ==
    (run = 2 /\ pc = "done") => result_file = first_file

\* C10 witness: the second run ended with two rows of equal job title written.
C10_Witness ==
    /\ run = 2
    /\ pc = "done"
    /\ Len(result_file.rows) = 2
    /\ SameTitle(result_file.rows, 1, 2)
    /\ result_file.rows[1] # result_file.rows[2]

\* C11 (as claimed): process_profiles ends by returning and its output is all or
\* nothing: a run writes the result file at most once and only after it has
\* visited every input row, and a run that a top-level error stopped has
\* written no result file.
C11_AllOrNothing ==
    /\ writes <= 1
    /\ writes > 0 => \A i \in 1..Len(outcome) : outcome[i] # "pending"
    /\ pc = "failed" => writes = 0

\* C13 (as claimed): get_driver sets up a browser session (creation plus login)
\* at most once, and a call that finds a session reuses a logged-in one.
C13_SessionSetUpOnce ==
    /\ setups <= 1
    /\ "reused" \in touched => driver = "logged_in"

\* The last row before idx for which the validator was called.
LastCalled ==
    CHOOSE j \in 1..(idx - 1) :
        /\ HasHttpUrl(df.rows[j])
        /\ \A k \in (j + 1)..(idx - 1) : ~HasHttpUrl(df.rows[k])

InitFailedInBatch == caller = "batch" /\ "init_failed" \in touched

\* C14 (as claimed): when the session cannot be initialized during a batch, the
\* error leaves the batch run: the row is not skipped and the run does not go on.
C14_InitFailurePropagates ==
    InitFailedInBatch => pc \notin {"build", "loop", "write", "done", "failed"}

\* C14 (amended): when the session cannot be initialized during a batch, the
\* validator turns the error into a None result, the row is skipped as a row
\* without lead and the run goes on to the next row and to the final write.
C14_InitFailureSkipsRow ==
    InitFailedInBatch =>
        /\ pc \in {"build", "loop", "write", "done", "failed"}
        /\ pc = "build" => result = None
        /\ pc # "build" => outcome[LastCalled] = "none"

\* C14 witness: the session could not be started for the batch's row and the
\* run ended with its file written.
C14_Witness ==
    /\ InitFailedInBatch
    /\ driver = "None"
    /\ pc = "done"
    /\ result_file # None
    /\ result_file.rows = <<>>

DirectReturned == pc = "idle" /\ caller = "direct"

\* C15 (as claimed): the validator never raises, and an exception in any step
\* of the pipeline (session, navigation, field extraction, link harvesting,
\* company inspection) makes it return None.
C15_AnyExceptionGivesNone ==
    DirectReturned =>
        /\ result # Raises
        /\ ("top_except" \in touched \/ trace.failed # {}) => result = None

\* C15 (amended): the validator never raises, and an exception that leaves a
\* step of the pipeline (session, navigation, a photo or job-title lookup) is
\* caught at the top level and makes it return None.
C15_EscapingExceptionGivesNone ==
    Returned =>
        /\ result # Raises
        /\ "top_except" \in touched => result = None

\* C15 witness: a direct call navigated to the profile, a later lookup raised
\* and the call returned None.
C15_Witness ==
    /\ DirectReturned
    /\ "top_except" \in touched
    /\ trace.photo # <<>>
    /\ result = None

\* The URLs of the companies visited so far, in the order of the visits.
VisitedUrls == [k \in 1..Len(trace.visits) |-> trace.visits[k].url]

\* The visits that gave a match, in their order.
MatchedVisits == SelectSeq(trace.visits, LAMBDA v : v.matched)

FailedReplies == {"no_connection", "not_json", "not_text"}

\* C16: inside one profile a company whose inspection fails (navigation error,
\* description element absent or not found in time, classifier failure) yields
\* no match for that company alone: the classifier is not asked when the
\* description was not found, every harvested company is still inspected, and
\* the profile is accepted with exactly the companies that were classified
\* relevant.
C16_CompanyFailureIsolated ==
    caller = "direct" =>
        /\ \A k \in 1..Len(trace.visits) :
              LET v == trace.visits[k]
              IN  /\ v.step # "asked" => (~v.matched /\ v.reply = "none")
                  /\ v.reply \in FailedReplies => ~v.matched
        /\ pc = "v_companies" => VisitedUrls \o company_urls = trace.harvested
        /\ (pc = "idle" /\ "top_except" \notin touched) =>
              /\ VisitedUrls = trace.harvested
              /\ MatchedVisits # <<>> <=> result # None
              /\ result # None =>
                    [k \in 1..Len(result.companies) |-> result.companies[k].company_url]
                        = [k \in 1..Len(MatchedVisits) |-> MatchedVisits[k].url]

\* C16 witness: the first company's inspection failed, the second company was
\* classified relevant and the profile was accepted.
C16_Witness ==
    /\ DirectReturned
    /\ Len(trace.visits) = 2
    /\ trace.visits[1].step \in {"nav_error", "no_about"}
    /\ trace.visits[2].matched
    /\ result # None

\* C17: the classifier answers False on every request failure: no connection,
\* a body that cannot be parsed, a body without a usable "response" text; the
\* failure does not leave the inspection of the company, which ends without a
\* match and lets the next company be inspected.
C17_ClassifierFalseOnFailure ==
    caller = "direct" =>
        \A k \in 1..Len(trace.visits) :
            LET v == trace.visits[k]
            IN  v.reply \in FailedReplies \cup {"no_key"} =>
                    /\ ~v.matched
                    /\ v.step = "asked"
                    /\ "top_except" \notin touched

\* C17 witness: the classifier's request failed for the first company, and the
\* second company was still classified and matched.
C17_Witness ==
    /\ DirectReturned
    /\ Len(trace.visits) = 2
    /\ trace.visits[1].reply \in FailedReplies
    /\ trace.visits[2].matched

\* C18 (as claimed): the harvester returns URLs without duplicates and without
\* query string, and the empty collection whenever its extraction failed, also
\* after some anchors were processed.
C18_HarvestDistinctOrEmpty ==
    caller = "direct" =>
        /\ \A i, j \in 1..Len(trace.harvested) :
              i # j => trace.harvested[i] # trace.harvested[j]
        /\ \A i \in 1..Len(trace.harvested) :
              \A k \in 1..Len(trace.harvested[i]) : trace.harvested[i][k] # "?"
        /\ "harvest" \in trace.failed => trace.harvested = <<>>

Blank(s) == \A i \in 1..Len(s) : s[i] \in {" ", "\n"}

\* t is raw without its leading and trailing white space.
IsStripped(t, raw) ==
    /\ t # <<>> => (t[1] \notin {" ", "\n"} /\ t[Len(t)] \notin {" ", "\n"})
    /\ \E a \in 0..Len(raw) :
          /\ a + Len(t) <= Len(raw)
          /\ Blank(SubSeq(raw, 1, a))
          /\ SubSeq(raw, a + 1, a + Len(t)) = t
          /\ Blank(SubSeq(raw, a + Len(t) + 1, Len(raw)))

\* The k-th job-title lookup found an element whose text is not blank.
HasTitle(k) == trace.title[k].kind = "text" /\ ~Blank(trace.title[k].text)

\* C19: the selector lists are tried in order and the first match wins:
\* has_photo is true exactly when a photo selector found an element; job_title
\* is the stripped text of the first selector whose element exists with a text
\* that is not empty, and the empty string if there is none; a selector that
\* finds nothing only makes the next one be tried, it never ends the call.
C19_FirstMatchWins ==
    caller = "direct" =>
        /\ pc \in {"v_title", "v_conn"} =>
              /\ has_photo <=> \E k \in 1..Len(trace.photo) : trace.photo[k] = "found"
              /\ \A k \in 1..(Len(trace.photo) - 1) : trace.photo[k] = "absent"
              /\ ~has_photo => Len(trace.photo) = Cardinality(PhotoSelectors)
        /\ pc = "v_conn" =>
              /\ \A k \in 1..(Len(trace.title) - 1) : ~HasTitle(k)
              /\ IF \E k \in 1..Len(trace.title) : HasTitle(k)
                 THEN /\ HasTitle(Len(trace.title))
                      /\ IsStripped(job_title, trace.title[Len(trace.title)].text)
                 ELSE /\ job_title = <<>>
                      /\ Len(trace.title) = Cardinality(TitleSelectors)
        /\ (pc = "idle" /\ "top_except" \in touched) =>
              /\ (trace.photo # <<>> /\ trace.title = <<>>) =>
                    trace.photo[Len(trace.photo)] = "error"
              /\ trace.title # <<>> => trace.title[Len(trace.title)].kind = "error"

\* C19 witness: the first photo selector found nothing and the second one the
\* photo; the first title selector found nothing, the second a blank text and
\* the third the title.
C19_Witness ==
    /\ caller = "direct"
    /\ pc = "v_conn"
    /\ trace.photo = <<"absent", "found">>
    /\ Len(trace.title) = 3
    /\ trace.title[1].kind = "absent"
    /\ trace.title[2] = [kind |-> "text", text |-> <<" ">>]
    /\ job_title = <<"B">>

Inspecting(t) == tasks[t].phase \in {"profile", "companies"}

\* C12 (as claimed): navigations on the one browser session never overlap: a
\* profile is navigated and inspected, company visits included, before the
\* navigation for another profile begins, so that no two batch loops are inside
\* an inspection at once and the page a loop inspects is the one it loaded.
C12_NavigationsNeverOverlap ==
    /\ \A t, u \in 1..Len(tasks) : (Inspecting(t) /\ Inspecting(u)) => t = u
    /\ \A t \in 1..Len(tasks) : Inspecting(t) => page = t

\* The table holds a string URL that starts with "http" in its linkedinUrl column.
PassesValidation(t) == \E k \in 1..Len(t.rows) : HasHttpUrl(t.rows[k])

\* C20 (as claimed): /process schedules a batch only for a file that passed the
\* upload validation; a file whose upload was refused is not left in the upload
\* directory, and /process for its name answers "File not found".
C20_OnlyValidatedFilesProcessed ==
    /\ \A t \in 1..Len(tasks) : PassesValidation(tasks[t].df)
    /\ \A f \in rejected : uploads[f] = None
    /\ (answer # None /\ answer.req = "process" /\ answer.file \in rejected) =>
          answer.status = 404

\* The batch that the most recent accepted POST /process for f scheduled.
Scheduled(f) == \E t \in 1..Len(tasks) : tasks[t].file = f
LastScheduled(f) ==
    CHOOSE t \in 1..Len(tasks) :
        tasks[t].file = f /\ \A u \in (t + 1)..Len(tasks) : tasks[u].file # f

\* The file was written by that batch, and that batch is over.
OutputOfLast(f, file) ==
    /\ tasks[LastScheduled(f)].phase = "done"
    /\ file.by = LastScheduled(f)

\* C21 (as claimed): once POST /process has answered "processing" for a file
\* name, whenever processed_<name> exists the batch of the most recent such
\* request is over and the file is that batch's output, and so is every file
\* that GET /download serves with status 200.
C21_PollingIsSound ==
    /\ \A f \in FileNames :
          (Scheduled(f) /\ results[f] # None) => OutputOfLast(f, results[f])
    /\ (answer # None /\ answer.req = "download" /\ answer.status = 200
            /\ Scheduled(answer.file)) =>
          OutputOfLast(answer.file, answer.detail)
====
